---- MODULE Spec2Model ----
(***************************************************************************)
(* WhisperFree push-to-talk session lifecycle.                             *)
(*                                                                         *)
(* Part 1 (specification Spec): HotkeyListener of whisperfree/hotkeys.py,  *)
(*   driven by raw key events, update_hotkey calls and a monotonic clock;  *)
(*   the registered callbacks are opaque and may raise.                    *)
(*                                                                         *)
(* Part 2 (specification AppSpec): WhisperFreeController of                *)
(*   whisperfree/app.py: the same listener with the controller's handlers  *)
(*   as its callbacks, the AudioRecorder, the two-worker executor running  *)
(*   _process_session (transcribe, paste_text, add_entry, idle), and quit. *)
(*                                                                         *)
(* Part 3 (specification SignalSpec): the controller's two handlers called *)
(*   in any order.                                                         *)
(*                                                                         *)
(* Part 4 (specification AudioSpec): AudioRecorder of whisperfree/audio.py *)
(*   alone, its methods called in any order.                               *)
(*                                                                         *)
(* Part 5 (specification PasteSpec): paste_text of whisperfree/paste.py,   *)
(*   one call followed step by step, with the clipboard and the            *)
(*   restoration timer; in AppSpec only its result is followed.            *)
(*                                                                         *)
(* Part 6 (specification HistorySpec): TranscriptionHistory of             *)
(*   whisperfree/history.py: add_entry on the worker threads, entries()    *)
(*   and total_word_count() on the UI thread, each step by step around     *)
(*   the lock, and a history object created anew over the same log.        *)
(*                                                                         *)
(* Part 7 (specification OverlapSpec): two paste_text calls, the second    *)
(*   made while the first runs or its restoration timer is pending.        *)
(*                                                                         *)
(* Part 8 (specification AudioLockSpec): AudioRecorder.stop() and the      *)
(*   capture callback step by step around the recorder's lock.             *)
(*                                                                         *)
(* Part 9 (specification QuitSpec): quit() on the main thread while the    *)
(*   keyboard thread handles a key-down event in two steps.                *)
(***************************************************************************)
EXTENDS Integers, Sequences, FiniteSets, TLC

VARIABLES
    required,        \* HotkeyListener._required_keys
    pressed,         \* HotkeyListener._pressed
    active,          \* HotkeyListener._active
    last_event_ts,   \* HotkeyListener._last_event_ts, in clock ticks
    now,             \* the value time.monotonic() returns, in clock ticks
    ev,              \* history: the operation the last step performed
    emit,            \* history: the callback the last step invoked
    cb,              \* history: how that callback, or in AudioSpec the
                     \* recorder call, ended ("ok", "raise")
    escaped,         \* history: an exception left _handle_event
    raised,          \* history: some callback has raised so far
    wasActive,       \* history: _active before the last step
    startsInCycle,   \* history: on_start calls in the current press cycle
    lastEmit,        \* history: the last callback invoked so far
    hook,            \* HotkeyListener._hook is set (events are delivered)
    overlay_enabled, \* AppConfig.overlay_enabled
    paste_retries,   \* AppConfig.paste_retries
    stream,          \* AudioRecorder._stream: "closed" (None), "open", or
                     \* "broken" (an object whose close() raised)
    buffer,          \* AudioRecorder._buffer: the captured blocks in order
    session,         \* history: number of on_start calls (the session id)
    queue,           \* the executor's work queue: submitted, not yet taken
    workers,         \* the executor's worker threads in _process_session
    shutdown,        \* the executor has been shut down
    history,         \* the history log: the entries add_entry appended
    sess,            \* history: what happened for each session
    clipboard,       \* the system clipboard's text
    pcall,           \* the paste_text call in progress or last returned
    timers,          \* the restoration timers started and not yet fired
    total_words,     \* TranscriptionHistory._total_words
    hlock,           \* the threads holding TranscriptionHistory._lock
    hadd,            \* the add_entry call of each worker thread
    hui,             \* the UI thread's entries() or total_word_count() call
    hdone,           \* history: the add_entry calls that have ended, and
                     \* whether they returned (or raised)
    pcall2,          \* the paste_text call of the executor's other worker
    stopper,         \* where the thread calling AudioRecorder.stop() is
    capture,         \* where the audio thread is in _callback
    inflight         \* a down event's handler has decided to call on_start
                     \* and has not yet done so

hkVars == <<required, pressed, active, last_event_ts>>
obsVars == <<ev, emit, cb, escaped, raised, wasActive, startsInCycle,
            lastEmit>>
appVars == <<hook, overlay_enabled, paste_retries, stream, buffer, session,
             queue, workers, shutdown, history, sess>>
pasteVars == <<clipboard, pcall, timers>>
histVars == <<total_words, hlock, hadd, hui, hdone>>
lockVars == <<stopper, capture>>
auxVars == <<histVars, pcall2, lockVars, inflight>>
vars == <<required, pressed, active, last_event_ts, now, ev, emit, cb,
          escaped, raised, wasActive, startsInCycle, lastEmit, hook, overlay_enabled,
          paste_retries, stream, buffer, session, queue, workers, shutdown,
          history, sess, clipboard, pcall, timers, total_words, hlock, hadd,
          hui, hdone, pcall2, stopper, capture, inflight>>

----------------------------------------------------------------------------
(* Bounds and constants *)

\* debounce_ms = 150 (hotkeys.py:43, :48), in clock ticks of 75 ms
Debounce == 2

\* the last clock value the model lets time.monotonic() reach
MaxTime == 7

\* the number of sessions (on_start calls) the controller model follows
MaxSessions == 2

\* the number of blocks the audio callback delivers to one session
MaxBlocks == 1

\* the number of blocks the audio callback delivers between two start()
\* calls when the recorder is modelled alone
MaxCaptured == 2

\* the longest text paste_text is called with, in characters
MaxTextLen == 2

\* the largest retries argument paste_text is called with
MaxRetries == 1

\* the number of add_entry calls the history model follows
MaxEntries == 3

\* the number of samples in one block (the stream's blocksize)
BlockSize == 2

\* paste_retries: int = 1 (config.py:36)
DefaultPasteRetries == 1

\* ThreadPoolExecutor(max_workers=2) (app.py:54)
NumWorkers == 2

\* time.monotonic() counts from a fixed origin long before the first key
\* event: the first reading is more than one debounce interval after it
ClockStart == Debounce + 1

----------------------------------------------------------------------------
(* Key names: _normalise_key *)

\* A raw key name as the keyboard library reports it: an optional side
\* qualifier and the base name that keyboard.normalize_name returns.
RawNames ==
    { [side |-> "none",  base |-> "ctrl"],
      [side |-> "left",  base |-> "control"],
      [side |-> "none",  base |-> "windows"],
      [side |-> "right", base |-> "win"],
      [side |-> "left",  base |-> "menu"],
      [side |-> "none",  base |-> "a"],
      [side |-> "none",  base |-> ""] }

\* the names update_hotkey is called with (the configured modifiers)
HotkeyChoices ==
    { [side |-> "none",  base |-> "ctrl"],
      [side |-> "left",  base |-> "control"],
      [side |-> "none",  base |-> "windows"],
      [side |-> "none",  base |-> "alt"] }

\* hotkeys.py:26-31: the alias table
Replacements(lower) ==
    CASE lower = "win" -> "windows"
      [] lower = "menu" -> "alt"
      [] lower = "control" -> "ctrl"
      [] OTHER -> lower

\* hotkeys.py:18-31: the "left "/"right " prefix is dropped, then the alias
\* table is applied to what remains
NormaliseKey(raw) == Replacements(raw.base)

----------------------------------------------------------------------------
(* HotkeyListener *)

\* hotkeys.py:86, :97: self._required_keys.issubset(self._pressed)
IsSatisfied(req, pr) == req \subseteq pr

\* the debounce comparison left out
DebounceNeverRejects(t, last) == FALSE

\* hotkeys.py:88: (now - self._last_event_ts) < self._debounce
DebounceRejects(t, last) == (t - last) < Debounce

\* the down branch without its "not self._active" test
DownStartsIgnoringActive(req, pr, act, t, last) ==
    IsSatisfied(req, pr) /\ ~DebounceRejects(t, last)

\* the down branch without its debounce test
DownStartsNoDebounce(req, pr, act, t, last) ==
    IsSatisfied(req, pr) /\ ~act

\* hotkeys.py:86-89: the down branch reaches the on_start call
DownStarts(req, pr, act, t, last) ==
    IsSatisfied(req, pr) /\ ~act /\ ~DebounceRejects(t, last)

\* the up branch without its "self._active" test
UpStopsIgnoringActive(req, pr, act) == ~IsSatisfied(req, pr)

\* hotkeys.py:97: the up branch reaches the on_stop call
UpStops(req, pr, act) == act /\ ~IsSatisfied(req, pr)

\* a down event that records the key without the test of hotkeys.py:82
DownPressedAnyKey(key) == pressed \cup {key}

\* hotkeys.py:82-84: the pressed set after a down event for key
DownPressed(key) == IF key \in required THEN pressed \cup {key} ELSE pressed

\* hotkeys.py:94-95: the pressed set after an up event for key
UpPressed(key) == pressed \ {key}

\* hotkeys.py:78-86: a down event for key invokes on_start
DownEmits(key) ==
    /\ key # ""
    /\ key \in required
    /\ DownStarts(required, DownPressed(key), active, now, last_event_ts)

\* hotkeys.py:78, :93-97: an up event for key invokes on_stop
UpEmits(key) ==
    /\ key # ""
    /\ UpStops(required, UpPressed(key), active)

\* hotkeys.py:81-92: the listener's fields after a down event
ListenerDown(key) ==
    /\ required' = required
    /\ pressed' = IF key = "" THEN pressed ELSE DownPressed(key)
    /\ active' = (active \/ DownEmits(key))
    /\ last_event_ts' = IF DownEmits(key) THEN now ELSE last_event_ts

\* hotkeys.py:93-100: the listener's fields after an up event
ListenerUp(key) ==
    /\ required' = required
    /\ pressed' = IF key = "" THEN pressed ELSE UpPressed(key)
    /\ active' = (active /\ ~UpEmits(key))
    /\ last_event_ts' = IF UpEmits(key) THEN now ELSE last_event_ts

\* _safe_call without its try/except
SafeCallNoExcept(outcome) == IF outcome = "raise" THEN "raised" ELSE "returned"

\* hotkeys.py:102-109: _safe_call runs the handler and swallows (prints) what
\* it raises; "raised" would mean the exception leaves _safe_call
SafeCall(outcome) == IF outcome = "raise" THEN "caught" ELSE "returned"

\* the press cycle: the pressed set holds the whole combination
InCycle == IsSatisfied(required, pressed)

\* history: on_start calls of the press cycle the step ends in
CycleCount(sig) ==
    IF ~IsSatisfied(required', pressed') THEN 0
    ELSE (IF InCycle /\ required' = required THEN startsInCycle ELSE 0)
         + (IF sig = "start" THEN 1 ELSE 0)

\* the history variables after a step that invoked callback sig (or "none")
\* which ended as outcome
Observe(op, sig, outcome) ==
    /\ ev' = op
    /\ emit' = sig
    /\ cb' = IF sig = "none" THEN "none" ELSE outcome
    /\ escaped' = (escaped \/ (sig # "none" /\ SafeCall(outcome) = "raised"))
    /\ raised' = (raised \/ (sig # "none" /\ outcome = "raise"))
    /\ wasActive' = active
    /\ startsInCycle' = CycleCount(sig)
    /\ lastEmit' = IF sig = "none" THEN lastEmit ELSE sig

Outcomes == {"ok", "raise"}

\* hotkeys.py:74-92 with event_type == "down"
KeyDown(raw) ==
    LET key == NormaliseKey(raw) IN
    /\ ListenerDown(key)
    /\ now' = now
    /\ \E o \in Outcomes :
         Observe([type |-> "down", key |-> key, prim |-> "", sec |-> ""],
                 IF DownEmits(key) THEN "start" ELSE "none", o)

\* hotkeys.py:74-80, :93-100 with event_type == "up"
KeyUp(raw) ==
    LET key == NormaliseKey(raw) IN
    /\ ListenerUp(key)
    /\ now' = now
    /\ \E o \in Outcomes :
         Observe([type |-> "up", key |-> key, prim |-> "", sec |-> ""],
                 IF UpEmits(key) THEN "stop" ELSE "none", o)

\* hotkeys.py:75-76: an event that is neither "down" nor "up"
OtherEvent(raw) ==
    /\ UNCHANGED <<hkVars, now>>
    /\ Observe([type |-> "other", key |-> NormaliseKey(raw), prim |-> "", sec |-> ""],
               "none", "ok")

\* update_hotkey without its self._pressed.clear()
UpdateHotkeyKeepsPressed(primary, secondary) ==
    /\ required' = {NormaliseKey(primary), NormaliseKey(secondary)}
    /\ pressed' = pressed
    /\ active' = FALSE
    /\ last_event_ts' = last_event_ts
    /\ now' = now
    /\ Observe([type |-> "update", key |-> "",
                prim |-> NormaliseKey(primary), sec |-> NormaliseKey(secondary)],
               "none", "ok")

\* hotkeys.py:68-72
UpdateHotkey(primary, secondary) ==
    /\ required' = {NormaliseKey(primary), NormaliseKey(secondary)}
    /\ pressed' = {}
    /\ active' = FALSE
    /\ last_event_ts' = last_event_ts
    /\ now' = now
    /\ Observe([type |-> "update", key |-> "",
                prim |-> NormaliseKey(primary), sec |-> NormaliseKey(secondary)],
               "none", "ok")

\* time.monotonic() advances between two events
Tick ==
    /\ now < MaxTime
    /\ now' = now + 1
    /\ UNCHANGED hkVars
    /\ Observe([type |-> "tick", key |-> "", prim |-> "", sec |-> ""], "none", "ok")

NoEvent == [type |-> "init", key |-> "", prim |-> "", sec |-> ""]

\* hotkeys.py:37-52 with the defaults primary="ctrl", secondary="windows"
HotkeyInit ==
    /\ required = {NormaliseKey([side |-> "none", base |-> "ctrl"]),
                   NormaliseKey([side |-> "none", base |-> "windows"])}
    /\ pressed = {}
    /\ active = FALSE
    /\ last_event_ts = 0
    /\ now = ClockStart
    /\ ev = NoEvent
    /\ emit = "none"
    /\ cb = "none"
    /\ escaped = FALSE
    /\ raised = FALSE
    /\ wasActive = FALSE
    /\ startsInCycle = 0
    /\ lastEmit = "none"

----------------------------------------------------------------------------
(* Text: str.strip, the word tokeniser *)

Whitespace == {" ", "\n", "\r", "\t"}

RECURSIVE LStrip(_)
\* str.lstrip(): leading whitespace removed
LStrip(t) == IF t # <<>> /\ Head(t) \in Whitespace THEN LStrip(Tail(t)) ELSE t

RECURSIVE RStrip(_)
\* str.rstrip(): trailing whitespace removed
RStrip(t) ==
    IF t # <<>> /\ t[Len(t)] \in Whitespace
    THEN RStrip(SubSeq(t, 1, Len(t) - 1))
    ELSE t

\* str.strip()
Strip(t) == RStrip(LStrip(t))

\* \w of history.py:19 over the model's characters
IsWordChar(c) == c \in {"a", "b", "h", "i"}

\* history.py:28-32: the number of matches of \b\w+\b, one per maximal run
\* of word characters
WordCount(t) ==
    Cardinality({ i \in 1..Len(t) :
                    IsWordChar(t[i]) /\ (i = 1 \/ ~IsWordChar(t[i - 1])) })

\* the key names the controller's model delivers events for
AppRawNames ==
    { [side |-> "none",  base |-> "ctrl"],
      [side |-> "right", base |-> "win"],
      [side |-> "none",  base |-> "a"] }

\* the texts the transcription API answers with
RawResponses ==
    { <<>>,
      <<" ", " ">>,
      <<"h", "i">>,
      <<" ", "a", " ", "b", "\n">> }

\* transcribe.py:42: response.text.strip() if response.text else ""
ApiText(resp) == IF resp = <<>> THEN <<>> ELSE Strip(resp)

----------------------------------------------------------------------------
(* AudioRecorder *)

\* audio.py:87-118: start(); outcome says whether sd.InputStream(...) and
\* its start() succeed. The result: the fields after the call and whether
\* the call raised.
AudioStart(st, buf, outcome) ==
    IF st # "closed"
    THEN [stream |-> st, buffer |-> buf, raised |-> FALSE, opened |-> FALSE]
    ELSE IF outcome = "ok"
         THEN [stream |-> "open", buffer |-> <<>>, raised |-> FALSE, opened |-> TRUE]
         ELSE [stream |-> "closed", buffer |-> <<>>, raised |-> TRUE, opened |-> FALSE]

\* audio.py:120-130: stop(); outcome says which of the stream's calls raise:
\* "stop_raises" (stream.stop() raises, the finally clause closes the stream
\* and clears the field) or "close_raises" (stream.close() raises, so the
\* assignment after it is skipped).
AudioStop(st, outcome) ==
    IF st = "closed"
    THEN [stream |-> "closed", raised |-> FALSE]
    ELSE CASE outcome = "ok" -> [stream |-> "closed", raised |-> FALSE]
           [] outcome = "stop_raises" -> [stream |-> "closed", raised |-> TRUE]
           [] OTHER -> [stream |-> "broken", raised |-> TRUE]

StartOutcomes == {"ok", "fail"}
StopOutcomes == {"ok", "stop_raises", "close_raises"}

\* the empty byte string
EmptyBytes == <<>>

\* audio.py:154-173: get_wav_bytes(): b"" when no block is buffered, else the
\* WAV header followed by the samples of the blocks in buffer order
\* audio.py:159: np.concatenate(self._buffer)
RECURSIVE Concatenate(_)
Concatenate(blocks) ==
    IF blocks = <<>> THEN <<>> ELSE Head(blocks) \o Concatenate(Tail(blocks))

RECURSIVE NewestFirst(_)
NewestFirst(blocks) ==
    IF blocks = <<>> THEN <<>> ELSE NewestFirst(Tail(blocks)) \o <<Head(blocks)>>

\* a get_wav_bytes that writes the newest block first
GetWavBytesNewestFirst(buf) ==
    IF buf = <<>> THEN EmptyBytes ELSE <<"RIFF">> \o Concatenate(NewestFirst(buf))

GetWavBytes(buf) ==
    IF buf = <<>> THEN EmptyBytes ELSE <<"RIFF">> \o Concatenate(buf)

\* the block the stream hands to the callback: BlockSize samples, told
\* apart by the start() call they follow and their position
Block(sid, idx) == [k \in 1..BlockSize |-> <<sid, idx, k>>]

\* audio.py:138-146: the capture callback appends the block it was handed;
\* the model follows at most limit blocks
CaptureBlock(limit) ==
    /\ stream = "open"
    /\ Len(buffer) < limit
    /\ buffer' = Append(buffer, Block(session, Len(buffer) + 1))
    /\ UNCHANGED <<hkVars, now, obsVars, hook, overlay_enabled, paste_retries, pasteVars, auxVars,
                   stream, session, queue, workers, shutdown, history, sess>>

AudioCallback == CaptureBlock(MaxBlocks)

----------------------------------------------------------------------------
(* paste_text, as _process_session sees it *)

\* paste.py:18-65: the result of paste_text when the clipboard read succeeds
\* iff readOk, the clipboard write succeeds iff writeOk, and the first fails
\* keyboard.send calls raise: whether it returned True, whether the text
\* was written to the clipboard, the keystrokes sent, and whether a
\* restoration timer was started.
PasteText(retries, readOk, writeOk, fails) ==
    IF ~writeOk
    THEN [ok |-> FALSE, wrote |-> FALSE, sends |-> 0, restore |-> FALSE]
    ELSE IF fails > retries
         THEN [ok |-> FALSE, wrote |-> TRUE, sends |-> retries + 1, restore |-> FALSE]
         ELSE [ok |-> TRUE, wrote |-> TRUE, sends |-> fails + 1, restore |-> readOk]

----------------------------------------------------------------------------
(* paste_text step by step, with the clipboard and the restoration timers *)

\* the characters of the texts paste_text is called with
PasteChars == {"a", " ", "\n", "\r"}

PasteTexts == UNION { [1..n -> PasteChars] : n \in 0..MaxTextLen }

\* paste.py:27: the characters rstrip("\r\n") removes
LineBreaks == {"\r", "\n"}

RECURSIVE RStripLineBreaks(_)
\* paste.py:27: text.rstrip("\r\n")
RStripLineBreaks(t) ==
    IF t # <<>> /\ t[Len(t)] \in LineBreaks
    THEN RStripLineBreaks(SubSeq(t, 1, Len(t) - 1))
    ELSE t

\* a payload that keeps the text's own line breaks
PayloadKeepsLineBreaks(text, append_newline) ==
    text \o (IF append_newline THEN <<"\n">> ELSE <<>>)

\* paste.py:27-28: sanitised + ("\n" if append_newline else "")
Payload(text, append_newline) ==
    RStripLineBreaks(text) \o (IF append_newline THEN <<"\n">> ELSE <<>>)

\* paste.py:29: original = None; no text, since a text is a sequence of
\* single characters
None == <<"None">>

\* what the clipboard holds before the first paste
PrePaste == <<"o">>

\* a paste_text that gives up when the clipboard cannot be read
AfterReadFailsAborts == "return_false"

\* paste.py:33-36: pyperclip.paste() raised PyperclipException: a warning is
\* logged and the call goes on to pyperclip.copy with original still None
AfterReadFails == "copy"

\* a paste_text that sends the keystroke although the write failed
AfterCopyFailsSendsAnyway == "send"

\* paste.py:38-40: pyperclip.copy(payload) raised PyperclipException
AfterCopyFails == "return_false"

\* a paste_text that gives up at the first failed keystroke
AfterSendFailsGivesUp(attempt, retries) == "return_false"

\* a paste_text without the try/except around keyboard.send
AfterSendFailsEscapes(attempt, retries) == "raise"

\* paste.py:47-51: keyboard.send raised in the attempt numbered attempt
\* (from 0)
AfterSendFails(attempt, retries) ==
    IF attempt >= retries THEN "return_false" ELSE "retry"

\* a paste_text that starts the timer whatever it read
SchedulesRestoreAlways(original) == TRUE

\* paste.py:53 with restore_clipboard left at its default True, as
\* app.py:155-159 leaves it
SchedulesRestore(original) == original # None

\* the record of one paste_text call
NoCall ==
    [ pc |-> "idle",            \* "read", "copy", "send", "returned", "raised"
      text |-> <<>>,            \* the arguments
      append_newline |-> FALSE,
      retries |-> 0,
      payload |-> <<>>,         \* paste.py:28
      original |-> None,        \* paste.py:29, :34
      before |-> <<>>,          \* history: the clipboard when the call began
      readFailed |-> FALSE,     \* history: pyperclip.paste() raised
      copies |-> 0,             \* history: pyperclip.copy(payload) calls
      wrote |-> FALSE,          \* history: pyperclip.copy(payload) returned
      attempt |-> 0,            \* the loop variable of paste.py:42
      sends |-> 0,              \* history: keyboard.send calls
      sent |-> FALSE,           \* history: a keyboard.send call returned
      scheduled |-> FALSE,      \* history: the restoration timer was started
      overlap |-> FALSE,        \* history: the call began after another call
                                \* and before that one's timer had fired
      result |-> "none" ]       \* "True", "False"

\* paste.py:40, :50: return False
ReturnFalse(call) == [call EXCEPT !.pc = "returned", !.result = "False"]

\* paste.py:53-65: the end of the call after the loop
ReturnTrue(call) ==
    [call EXCEPT !.pc = "returned", !.result = "True",
                 !.scheduled = SchedulesRestore(call.original)]

\* paste.py:61-63: the timers after a call returned as call
Started(call) ==
    IF call.scheduled THEN Append(timers, call.original) ELSE timers

\* paste.py:42: the call on entering the loop; range(retries + 1) is empty
\* for a negative retries
EnterLoop(call) ==
    IF call.retries + 1 > 0 THEN [call EXCEPT !.pc = "send", !.attempt = 0]
    ELSE ReturnTrue(call)

\* paste.py:18-29: paste_text is called; the model follows one call
PasteCall(text, append_newline, retries) ==
    /\ pcall.pc = "idle"
    /\ pcall' = [NoCall EXCEPT !.pc = "read",
                               !.text = text,
                               !.append_newline = append_newline,
                               !.retries = retries,
                               !.payload = Payload(text, append_newline),
                               !.before = clipboard]
    /\ UNCHANGED <<hkVars, now, obsVars, appVars, auxVars, clipboard, timers>>

\* paste.py:32-36: pyperclip.paste() returns the clipboard or raises
PasteRead(readOk) ==
    /\ pcall.pc = "read"
    /\ pcall' = IF readOk
                THEN [pcall EXCEPT !.pc = "copy", !.original = clipboard]
                ELSE IF AfterReadFails = "copy"
                     THEN [pcall EXCEPT !.pc = "copy", !.readFailed = TRUE]
                     ELSE ReturnFalse([pcall EXCEPT !.readFailed = TRUE])
    /\ UNCHANGED <<hkVars, now, obsVars, appVars, auxVars, clipboard, timers>>

\* paste.py:37-40: pyperclip.copy(payload) sets the clipboard or raises
PasteCopy(writeOk) ==
    /\ pcall.pc = "copy"
    /\ LET call == [pcall EXCEPT !.copies = @ + 1, !.wrote = writeOk]
           after == IF writeOk \/ AfterCopyFails = "send"
                    THEN EnterLoop(call)
                    ELSE ReturnFalse(call)
       IN /\ pcall' = after
          /\ timers' = Started(after)
    /\ clipboard' = IF writeOk THEN pcall.payload ELSE clipboard
    /\ UNCHANGED <<hkVars, now, obsVars, appVars, auxVars>>

\* paste.py:42-65: one keyboard.send("ctrl+v"); when it returns the loop is
\* left and the call ends at :53-65, when it raises the loop goes on or the
\* call returns False
PasteSend(sendOk) ==
    /\ pcall.pc = "send"
    /\ LET call == [pcall EXCEPT !.sends = @ + 1, !.sent = sendOk]
           dec == AfterSendFails(pcall.attempt, pcall.retries)
           after == IF sendOk THEN ReturnTrue(call)
                    ELSE IF dec = "retry"
                         THEN [call EXCEPT !.attempt = @ + 1]
                         ELSE IF dec = "return_false"
                              THEN ReturnFalse(call)
                              ELSE [call EXCEPT !.pc = "raised"]
       IN /\ pcall' = after
          /\ timers' = Started(after)
    /\ UNCHANGED <<hkVars, now, obsVars, appVars, auxVars, clipboard>>

\* the timers without the one at position i
Without(ts, i) == SubSeq(ts, 1, i - 1) \o SubSeq(ts, i + 1, Len(ts))

\* paste.py:55-59: a restoration timer fires: _restore_clipboard(value), in
\* which pyperclip.copy sets the clipboard or raises, which is caught
TimerFires(writeOk) ==
    /\ \E i \in 1..Len(timers) :
          /\ clipboard' = IF writeOk THEN timers[i] ELSE clipboard
          /\ timers' = Without(timers, i)
    /\ UNCHANGED <<hkVars, now, obsVars, appVars, auxVars, pcall>>

\* the texts of two sessions' transcriptions
OverlapTexts == { <<"h", "i">>, <<"a", " ", "b">> }

\* paste.py:18-29: paste_text is called on the second worker while the first
\* worker's call is running or has returned
Paste2Call(text, append_newline, retries) ==
    /\ pcall2.pc = "idle"
    /\ pcall.pc # "idle"
    /\ pcall2' = [NoCall EXCEPT !.pc = "read",
                                !.text = text,
                                !.append_newline = append_newline,
                                !.retries = retries,
                                !.payload = Payload(text, append_newline),
                                !.before = clipboard,
                                !.overlap = (pcall.pc # "returned"
                                             \/ timers # <<>>)]
    /\ UNCHANGED <<hkVars, now, obsVars, appVars, pasteVars, histVars, lockVars, inflight>>

\* paste.py:32-36 on the second worker
Paste2Read(readOk) ==
    /\ pcall2.pc = "read"
    /\ pcall2' = IF readOk
                 THEN [pcall2 EXCEPT !.pc = "copy", !.original = clipboard]
                 ELSE IF AfterReadFails = "copy"
                      THEN [pcall2 EXCEPT !.pc = "copy", !.readFailed = TRUE]
                      ELSE ReturnFalse([pcall2 EXCEPT !.readFailed = TRUE])
    /\ UNCHANGED <<hkVars, now, obsVars, appVars, pasteVars, histVars, lockVars, inflight>>

\* paste.py:37-40 on the second worker
Paste2Copy(writeOk) ==
    /\ pcall2.pc = "copy"
    /\ LET call == [pcall2 EXCEPT !.copies = @ + 1, !.wrote = writeOk]
           after == IF writeOk \/ AfterCopyFails = "send"
                    THEN EnterLoop(call)
                    ELSE ReturnFalse(call)
       IN /\ pcall2' = after
          /\ timers' = Started(after)
    /\ clipboard' = IF writeOk THEN pcall2.payload ELSE clipboard
    /\ UNCHANGED <<hkVars, now, obsVars, appVars, pcall, histVars, lockVars, inflight>>

\* paste.py:42-65 on the second worker
Paste2Send(sendOk) ==
    /\ pcall2.pc = "send"
    /\ LET call == [pcall2 EXCEPT !.sends = @ + 1, !.sent = sendOk]
           dec == AfterSendFails(pcall2.attempt, pcall2.retries)
           after == IF sendOk THEN ReturnTrue(call)
                    ELSE IF dec = "retry"
                         THEN [call EXCEPT !.attempt = @ + 1]
                         ELSE IF dec = "return_false"
                              THEN ReturnFalse(call)
                              ELSE [call EXCEPT !.pc = "raised"]
       IN /\ pcall2' = after
          /\ timers' = Started(after)
    /\ UNCHANGED <<hkVars, now, obsVars, appVars, clipboard, pcall, histVars, lockVars, inflight>>

----------------------------------------------------------------------------
(* WhisperFreeController *)

Workers == 1..NumWorkers
Sessions == 1..MaxSessions

FreeWorker == [pc |-> "free", sid |-> 0]

NewSess ==
    [ startOk |-> FALSE,        \* audio.start() opened a stream
      startFailed |-> FALSE,    \* audio.start() raised
      startEscaped |-> FALSE,   \* an exception left the start handler
      recReq |-> FALSE,         \* recording_requested was emitted
      read |-> "none",          \* what get_wav_bytes returned: "empty", "data"
      streamAtRead |-> "none",  \* _stream when get_wav_bytes was called
      submitted |-> FALSE,      \* _process_session was submitted
      toasts |-> {},            \* the toast_requested texts
      idleReq |-> 0,            \* idle_requested emissions
      transcribeCalls |-> 0,    \* transcribe() calls
      transcribed |-> "none",   \* how transcribe() ended: "fail", "ok"
      resp |-> <<>>,            \* the API's answer
      pasteCalls |-> 0,         \* paste_text calls
      paste |-> "none",         \* how paste_text ended: "ok", "copy_failed"
                                \* (False, nothing sent), "keys_failed"
                                \* (False after retries + 1 keystrokes)
      histCalls |-> 0,          \* add_entry calls
      histRaised |-> FALSE,     \* the add_entry call raised
      done |-> FALSE ]          \* _process_session has ended

\* a stop handler that takes every payload for speech
PayloadNeverEmpty(payload) == FALSE

\* app.py:130: if not audio_bytes
PayloadIsEmpty(payload) == payload = EmptyBytes

\* app.py:150: not transcribed_text.strip()
NothingToPaste(text) == Strip(text) = <<>>

\* a start handler without the try/except around audio.start()
StartErrorEscapes(failed) ==
    [toast |-> FALSE, recording |-> ~failed, escaped |-> failed]

\* app.py:117-124: what the start handler does once audio.start() has
\* returned or raised: whether it requests the "Audio input error" toast,
\* whether it goes on to the recording indicator, and whether the exception
\* leaves the handler
StartErrorCaught(failed) ==
    [toast |-> failed, recording |-> ~failed, escaped |-> FALSE]

\* app.py:115-124: _handle_push_to_talk_start, the listener's on_start
HandlePushToTalkStart(outcome) ==
    LET s == session + 1
        res == AudioStart(stream, buffer, outcome)
        act == StartErrorCaught(res.raised)
    IN  /\ session' = s
        /\ stream' = res.stream
        /\ buffer' = res.buffer
        /\ sess' = [sess EXCEPT
                      ![s].startOk = res.opened,
                      ![s].startFailed = res.raised,
                      ![s].startEscaped = act.escaped,
                      ![s].toasts = IF act.toast THEN @ \cup {"Audio input error"} ELSE @,
                      ![s].recReq = act.recording /\ overlay_enabled]
        /\ UNCHANGED <<hook, overlay_enabled, paste_retries, pasteVars, histVars, pcall2, lockVars, queue, workers,
                       shutdown, history>>

\* a stop handler that calls _process_session itself instead of submitting
\* it: the transcribe() call is made on the thread that delivered the event
HandlePushToTalkStopInline(outcome) ==
    LET s == session
        res == AudioStop(stream, outcome)
        audio_bytes == GetWavBytes(buffer)
        empty == PayloadIsEmpty(audio_bytes)
    IN  /\ stream' = res.stream
        /\ IF res.raised
           THEN UNCHANGED sess
           ELSE sess' = [sess EXCEPT
                           ![s].read = IF empty THEN "empty" ELSE "data",
                           ![s].streamAtRead = res.stream,
                           ![s].toasts = IF empty
                                         THEN @ \cup {"No speech detected"}
                                         ELSE @,
                           ![s].idleReq = IF empty /\ overlay_enabled
                                          THEN @ + 1 ELSE @,
                           ![s].transcribeCalls = IF empty THEN @ ELSE @ + 1]
        /\ UNCHANGED <<hook, overlay_enabled, paste_retries, pasteVars, histVars, pcall2, lockVars, buffer,
                       session, queue, workers, shutdown, history>>

\* app.py:126-136: _handle_push_to_talk_stop, the listener's on_stop. When
\* audio.stop() raises, the handler ends there. A submit() after the
\* executor's shutdown raises and queues nothing.
HandlePushToTalkStop(outcome) ==
    LET s == session
        res == AudioStop(stream, outcome)
        audio_bytes == GetWavBytes(buffer)
        empty == PayloadIsEmpty(audio_bytes)
        submit == ~empty /\ ~shutdown
    IN  /\ stream' = res.stream
        /\ IF res.raised
           THEN UNCHANGED <<queue, sess>>
           ELSE /\ sess' = [sess EXCEPT
                              ![s].read = IF audio_bytes = EmptyBytes
                                          THEN "empty" ELSE "data",
                              ![s].streamAtRead = res.stream,
                              ![s].toasts = IF empty
                                            THEN @ \cup {"No speech detected"}
                                            ELSE @,
                              ![s].idleReq = IF empty /\ overlay_enabled
                                             THEN @ + 1 ELSE @,
                              ![s].submitted = submit]
                /\ queue' = IF submit
                            THEN Append(queue, [sid |-> s, payload |-> audio_bytes])
                            ELSE queue
        /\ UNCHANGED <<hook, overlay_enabled, paste_retries, pasteVars, histVars, pcall2, lockVars, buffer, session,
                       workers, shutdown, history>>

\* hotkeys.py:74-92 with the controller's handler as on_start
AppKeyDown(raw) ==
    LET key == NormaliseKey(raw) IN
    /\ hook
    /\ ListenerDown(key)
    /\ IF DownEmits(key)
       THEN /\ session < MaxSessions
            /\ \E o \in StartOutcomes : HandlePushToTalkStart(o)
       ELSE UNCHANGED <<appVars, pasteVars, auxVars>>
    /\ UNCHANGED <<now, obsVars, inflight>>

\* hotkeys.py:74-80, :93-100 with the controller's handler as on_stop
AppKeyUp(raw) ==
    LET key == NormaliseKey(raw) IN
    /\ hook
    /\ ListenerUp(key)
    /\ IF UpEmits(key)
       THEN \E o \in StopOutcomes : HandlePushToTalkStop(o)
       ELSE UNCHANGED <<appVars, pasteVars, auxVars>>
    /\ UNCHANGED <<now, obsVars, inflight>>

\* time.monotonic() advances between two events. The listener only tests
\* whether less than the debounce interval has passed since the last
\* accepted transition (hotkeys.py:88), so the controller's model lets the
\* clock either stand still or jump by one interval, and no further once
\* the interval has passed.
AppTick ==
    /\ now - last_event_ts < Debounce
    /\ now + Debounce <= MaxTime
    /\ now' = now + Debounce
    /\ UNCHANGED <<hkVars, obsVars, appVars, pasteVars, auxVars>>

\* an idle worker thread (the threads are interchangeable: the first idle
\* one) takes the oldest submitted job and enters _process_session:
\* app.py:138-141, up to the blocking transcribe() call
WorkerTake(w) ==
    /\ workers[w].pc = "free"
    /\ \A v \in Workers : v < w => workers[v].pc # "free"
    /\ queue # <<>>
    /\ LET job == Head(queue) IN
       /\ workers' = [workers EXCEPT ![w] = [pc |-> "transcribe", sid |-> job.sid]]
       /\ sess' = [sess EXCEPT ![job.sid].transcribeCalls = @ + 1]
    /\ queue' = Tail(queue)
    /\ UNCHANGED <<hkVars, now, obsVars, hook, overlay_enabled, paste_retries, pasteVars, auxVars,
                   stream, buffer, session, shutdown, history>>

\* app.py:140-146 without the return that ends the except branch
AfterTranscribeFallsThrough(failed, text) ==
    IF failed THEN [toast |-> "Transcription failed", idle |-> TRUE, next |-> "paste"]
    ELSE IF NothingToPaste(text)
    THEN [toast |-> "Nothing to paste", idle |-> TRUE, next |-> "free"]
    ELSE [toast |-> "", idle |-> FALSE, next |-> "paste"]

\* app.py:148-153 without the whitespace test
AfterTranscribeNoBlankTest(failed, text) ==
    IF failed THEN [toast |-> "Transcription failed", idle |-> TRUE, next |-> "free"]
    ELSE [toast |-> "", idle |-> FALSE, next |-> "paste"]

\* _process_session going from the blank test straight to add_entry
AfterTranscribeSkipsPaste(failed, text) ==
    IF failed THEN [toast |-> "Transcription failed", idle |-> TRUE, next |-> "free"]
    ELSE IF NothingToPaste(text)
    THEN [toast |-> "Nothing to paste", idle |-> TRUE, next |-> "free"]
    ELSE [toast |-> "", idle |-> FALSE, next |-> "history"]

\* app.py:140-155: what _process_session does when transcribe() has ended:
\* the toast it requests, whether it requests idle, and where it goes on
AfterTranscribe(failed, text) ==
    IF failed THEN [toast |-> "Transcription failed", idle |-> TRUE, next |-> "free"]
    ELSE IF NothingToPaste(text)
    THEN [toast |-> "Nothing to paste", idle |-> TRUE, next |-> "free"]
    ELSE [toast |-> "", idle |-> FALSE, next |-> "paste"]

\* app.py:140-153: transcribe() returns the API's answer, or raises
TranscribeReturns(w, failed, resp) ==
    /\ workers[w].pc = "transcribe"
    /\ LET s == workers[w].sid
           text == IF failed THEN <<>> ELSE ApiText(resp)
           act == AfterTranscribe(failed, text)
       IN /\ workers' = [workers EXCEPT ![w] =
                           IF act.next = "free" THEN FreeWorker
                           ELSE [pc |-> act.next, sid |-> s]]
          /\ sess' = [sess EXCEPT
                        ![s].transcribed = IF failed THEN "fail" ELSE "ok",
                        ![s].resp = IF failed THEN <<>> ELSE resp,
                        ![s].toasts = IF act.toast = "" THEN @ ELSE @ \cup {act.toast},
                        ![s].idleReq = IF act.idle THEN @ + 1 ELSE @,
                        ![s].done = (act.next = "free")]
    /\ UNCHANGED <<hkVars, now, obsVars, hook, overlay_enabled, paste_retries, pasteVars, auxVars,
                   stream, buffer, session, queue, shutdown, history>>

\* app.py:155-159: the paste_text call
PasteStep(w, readOk, writeOk, fails) ==
    /\ workers[w].pc = "paste"
    /\ LET s == workers[w].sid
           res == PasteText(paste_retries, readOk, writeOk, fails)
       IN /\ workers' = [workers EXCEPT ![w].pc = "history"]
          /\ sess' = [sess EXCEPT
                        ![s].pasteCalls = @ + 1,
                        ![s].paste = IF res.ok THEN "ok"
                                     ELSE IF res.sends = 0 THEN "copy_failed"
                                     ELSE "keys_failed"]
    /\ UNCHANGED <<hkVars, now, obsVars, hook, overlay_enabled, paste_retries, pasteVars, auxVars,
                   stream, buffer, session, queue, shutdown, history>>

\* _process_session recording history only after a successful paste
RecordsHistoryOnlyIfPasted(pasted) == pasted

\* app.py:160: add_entry is called whatever paste_text returned
RecordsHistory(pasted) == TRUE

\* app.py:160-161, history.py:73-83: the add_entry call; it appends one
\* entry, or the write raises and _process_session ends with the exception
HistoryStep(w, writeOk) ==
    /\ workers[w].pc = "history"
    /\ LET s == workers[w].sid
           text == ApiText(sess[s].resp)
           called == RecordsHistory(sess[s].paste = "ok")
       IN /\ workers' = [workers EXCEPT ![w] =
                           IF called /\ ~writeOk THEN FreeWorker
                           ELSE [@ EXCEPT !.pc = "reset"]]
          /\ history' = IF called /\ writeOk
                        THEN Append(history, [sid |-> s, text |-> text,
                                               words |-> WordCount(text)])
                        ELSE history
          /\ sess' = [sess EXCEPT
                        ![s].histCalls = IF called THEN @ + 1 ELSE @,
                        ![s].histRaised = called /\ ~writeOk,
                        ![s].done = called /\ ~writeOk]
    /\ UNCHANGED <<hkVars, now, obsVars, hook, overlay_enabled, paste_retries, pasteVars, auxVars,
                   stream, buffer, session, queue, shutdown>>

\* app.py:166: idle_requested.emit(), the end of _process_session
ResetStep(w) ==
    /\ workers[w].pc = "reset"
    /\ workers' = [workers EXCEPT ![w] = FreeWorker]
    /\ sess' = [sess EXCEPT ![workers[w].sid].idleReq = @ + 1,
                            ![workers[w].sid].done = TRUE]
    /\ UNCHANGED <<hkVars, now, obsVars, hook, overlay_enabled, paste_retries, pasteVars, auxVars,
                   stream, buffer, session, queue, shutdown, history>>

\* app.py:80-86, hotkeys.py:60-66: quit(): the listener is unhooked and
\* reset, the recorder stopped and, unless that raised, the executor shut
\* down with its queued jobs cancelled
Quit(outcome) ==
    /\ ~shutdown
    /\ hook' = FALSE
    /\ pressed' = {}
    /\ active' = FALSE
    /\ LET res == AudioStop(stream, outcome) IN
       /\ stream' = res.stream
       /\ shutdown' = ~res.raised
       /\ queue' = IF res.raised THEN queue ELSE <<>>
    /\ UNCHANGED <<required, last_event_ts, now, obsVars, overlay_enabled,
                   paste_retries, pasteVars, auxVars, buffer, session, workers, history, sess>>

----------------------------------------------------------------------------
(* TranscriptionHistory, its methods step by step; the variable history is
   the log file *)

\* history.py:71: _total_words is None
NoTotal == -1

\* the texts add_entry is called with
HistoryTexts == { <<"h", "i">>, <<"a", " ", "b">> }

RECURSIVE SumWords(_)
\* history.py:93-104, :126-137: the sum of the words fields of the log's
\* records
SumWords(log) ==
    IF log = <<>> THEN 0 ELSE Head(log).words + SumWords(Tail(log))

\* a lock that every thread may enter
LockAlwaysFree(holders) == TRUE

\* threading.Lock: it can be acquired when no thread holds it
LockFree(holders) == holders = {}

\* history.py:82: (self._total_words or 0)
TotalOrZero(total, log) == IF total = NoTotal THEN 0 ELSE total

IdleAdd == [pc |-> "idle", id |-> 0, text |-> <<>>, words |-> 0]

IdleUi == [pc |-> "idle", op |-> "none", raw |-> <<>>, result |-> 0]

\* the add_entry calls made so far
Begun == Cardinality(hdone) + Cardinality({v \in Workers : hadd[v].pc # "idle"})

\* history.py:73-77: a worker thread calls add_entry(text); the entry is
\* built before the lock is requested. The call's number stands for the
\* timestamp.
AddEntry(w, text) ==
    /\ hadd[w].pc = "idle"
    /\ Begun < MaxEntries
    /\ hadd' = [hadd EXCEPT ![w] =
                  [pc |-> "lock", id |-> Begun + 1,
                   text |-> text, words |-> WordCount(text)]]
    /\ UNCHANGED <<hkVars, now, obsVars, appVars, pasteVars, pcall2, lockVars, inflight, total_words,
                   hlock, hui, hdone>>

\* history.py:78: with self._lock
AddAcquire(w) ==
    /\ hadd[w].pc = "lock"
    /\ LockFree(hlock)
    /\ hlock' = hlock \cup {w}
    /\ hadd' = [hadd EXCEPT ![w].pc = "write"]
    /\ UNCHANGED <<hkVars, now, obsVars, appVars, pasteVars, pcall2, lockVars, inflight, total_words,
                   hui, hdone>>

\* history.py:79-81: the record is appended to the file, or mkdir, open or
\* write raises and the call ends with the exception, the lock released
AddWrite(w, writeOk) ==
    /\ hadd[w].pc = "write"
    /\ IF writeOk
       THEN /\ history' = Append(history, [sid |-> hadd[w].id,
                                           text |-> hadd[w].text,
                                           words |-> hadd[w].words])
            /\ hadd' = [hadd EXCEPT ![w].pc = "total"]
            /\ hlock' = hlock
            /\ hdone' = hdone
       ELSE /\ history' = history
            /\ hadd' = [hadd EXCEPT ![w] = IdleAdd]
            /\ hlock' = hlock \ {w}
            /\ hdone' = hdone \cup {[id |-> hadd[w].id, returned |-> FALSE]}
    /\ UNCHANGED <<hkVars, now, obsVars, hook, overlay_enabled, paste_retries,
                   stream, buffer, session, queue, workers, shutdown, sess,
                   pasteVars, pcall2, lockVars, inflight, total_words, hui>>

\* history.py:82-83: the running total is updated, the lock released and
\* the entry returned
AddTotal(w) ==
    /\ hadd[w].pc = "total"
    /\ total_words' = TotalOrZero(total_words, history) + hadd[w].words
    /\ hlock' = hlock \ {w}
    /\ hdone' = hdone \cup {[id |-> hadd[w].id, returned |-> TRUE]}
    /\ hadd' = [hadd EXCEPT ![w] = IdleAdd]
    /\ UNCHANGED <<hkVars, now, obsVars, appVars, pasteVars, pcall2, lockVars, inflight, hui>>

\* history.py:85-92: entries() with limit None on an existing file: the
\* lines are read under the lock. Without a file entries() returns at :90
\* and changes nothing.
EntriesRead ==
    /\ hui.pc = "idle"
    /\ history # <<>>
    /\ LockFree(hlock)
    /\ hui' = [pc |-> "sum", op |-> "entries", raw |-> history, result |-> 0]
    /\ UNCHANGED <<hkVars, now, obsVars, appVars, pasteVars, pcall2, lockVars, inflight, total_words,
                   hlock, hadd, hdone>>

\* history.py:93-110: the lines read are parsed and summed outside the lock,
\* then the sum is stored under the lock
EntriesStore ==
    /\ hui.pc = "sum"
    /\ LockFree(hlock)
    /\ total_words' = SumWords(hui.raw)
    /\ hui' = [hui EXCEPT !.pc = "idle", !.result = Len(hui.raw)]
    /\ UNCHANGED <<hkVars, now, obsVars, appVars, pasteVars, pcall2, lockVars, inflight, hlock, hadd,
                   hdone>>

\* history.py:112-139: total_word_count(), all of it under the lock: the
\* stored total, or the sum over the file (0 without a file), which it stores
TotalWordCount ==
    /\ hui.pc = "idle"
    /\ LockFree(hlock)
    /\ LET total == IF total_words # NoTotal THEN total_words
                    ELSE SumWords(history)
       IN /\ total_words' = total
          /\ hui' = [pc |-> "idle", op |-> "total_word_count", raw |-> <<>>,
                     result |-> total]
    /\ UNCHANGED <<hkVars, now, obsVars, appVars, pasteVars, pcall2, lockVars, inflight, hlock, hadd,
                   hdone>>

\* history.py:68-71: a TranscriptionHistory is created over the log as it
\* is (the application is started again)
NewHistory ==
    /\ hui.pc = "idle"
    /\ \A w \in Workers : hadd[w].pc = "idle"
    /\ total_words # NoTotal
    /\ total_words' = NoTotal
    /\ hui' = IdleUi
    /\ UNCHANGED <<hkVars, now, obsVars, appVars, pasteVars, pcall2, lockVars, inflight, hlock, hadd,
                   hdone>>

----------------------------------------------------------------------------
(* quit() on the main thread while the keyboard thread handles an event *)

\* no handler is between its decision and its on_start call
NoneInFlight == [set |-> FALSE, ts |-> 0]

\* hotkeys.py:74-89: the keyboard thread handles a down event up to the
\* decision to call on_start: the key is recorded, the combination, the
\* Active flag and the debounce interval are tested with the clock read at
\* :87. A handler that does not reach :90 is over.
DownDecides(raw) ==
    LET key == NormaliseKey(raw) IN
    /\ hook
    /\ ~inflight.set
    /\ pressed' = IF key = "" THEN pressed ELSE DownPressed(key)
    /\ inflight' = IF DownEmits(key) THEN [set |-> TRUE, ts |-> now]
                   ELSE NoneInFlight
    /\ UNCHANGED <<required, active, last_event_ts, now, obsVars, appVars,
                   pasteVars, histVars, pcall2, lockVars>>

\* hotkeys.py:90-92: the same handler goes on: the time and the Active flag
\* are set and on_start, the controller's start handler, is called
DownCallsStart(outcome) ==
    /\ inflight.set
    /\ session < MaxSessions
    /\ last_event_ts' = inflight.ts
    /\ active' = TRUE
    /\ inflight' = NoneInFlight
    /\ HandlePushToTalkStart(outcome)
    /\ UNCHANGED <<required, pressed, now, obsVars>>

\* hotkeys.py:93-100: an up event, delivered when the handler of the event
\* before it is over
UpHandled(raw) ==
    /\ ~inflight.set
    /\ AppKeyUp(raw)

----------------------------------------------------------------------------
(* AudioRecorder with its lock: stop() and _callback step by step *)

\* audio.py:87-118: start(), all of it under the lock, which the thread in
\* stop() holds from :122 to :129
LockedStart(outcome) ==
    LET res == AudioStart(stream, buffer, outcome) IN
    /\ stopper = "idle"
    /\ session < MaxSessions
    /\ stream' = res.stream
    /\ buffer' = res.buffer
    /\ session' = session + 1
    /\ UNCHANGED <<hkVars, now, obsVars, hook, overlay_enabled, paste_retries,
                   queue, workers, shutdown, history, sess, pasteVars,
                   histVars, pcall2, lockVars, inflight>>

\* audio.py:120-126: stop() takes the lock and, with a stream set, calls
\* self._stream.stop(); without one it returns at :124
StopEnter ==
    /\ stopper = "idle"
    /\ stream # "closed"
    /\ stopper' = "stopping"
    /\ UNCHANGED <<hkVars, now, obsVars, appVars, pasteVars, histVars, pcall2,
                   capture, inflight>>

\* audio.py:126-129: self._stream.stop() returns, or raises, once the audio
\* thread is out of the callback; then close(), the field is cleared and the
\* lock released
StopLeave(outcome) ==
    /\ stopper = "stopping"
    /\ capture = "idle"
    /\ stream' = AudioStop(stream, outcome).stream
    /\ stopper' = "idle"
    /\ UNCHANGED <<hkVars, now, obsVars, hook, overlay_enabled, paste_retries,
                   buffer, session, queue, workers, shutdown, history, sess,
                   pasteVars, histVars, pcall2, capture, inflight>>

\* audio.py:138-143: the audio thread enters _callback for a block of the
\* running stream and copies it
CallbackEnter ==
    /\ stream = "open"
    /\ stopper = "idle"
    /\ capture = "idle"
    /\ Len(buffer) < MaxCaptured
    /\ capture' = "copied"
    /\ UNCHANGED <<hkVars, now, obsVars, appVars, pasteVars, histVars, pcall2,
                   stopper, inflight>>

\* audio.py:144-146: with self._lock: the block is appended
CallbackAppend ==
    /\ capture = "copied"
    /\ stopper = "idle"
    /\ buffer' = Append(buffer, Block(session, Len(buffer) + 1))
    /\ capture' = "notify"
    /\ UNCHANGED <<hkVars, now, obsVars, hook, overlay_enabled, paste_retries,
                   stream, session, queue, workers, shutdown, history, sess,
                   pasteVars, histVars, pcall2, stopper, inflight>>

\* audio.py:147-152: the level and waveform callbacks, then _callback returns
CallbackLeave ==
    /\ capture = "notify"
    /\ capture' = "idle"
    /\ UNCHANGED <<hkVars, now, obsVars, appVars, pasteVars, histVars, pcall2,
                   stopper, inflight>>

\* app.py:38-78: the controller after __init__ and start()
AppInit ==
    /\ hook = TRUE
    /\ overlay_enabled \in BOOLEAN
    /\ paste_retries = DefaultPasteRetries
    /\ stream = "closed"
    /\ buffer = <<>>
    /\ session = 0
    /\ queue = <<>>
    /\ workers = [w \in Workers |-> FreeWorker]
    /\ shutdown = FALSE
    /\ history = <<>>
    /\ sess = [s \in Sessions |-> NewSess]
    /\ clipboard = PrePaste
    /\ pcall = NoCall
    /\ timers = <<>>
    /\ total_words = NoTotal
    /\ hlock = {}
    /\ hadd = [w \in Workers |-> IdleAdd]
    /\ hui = IdleUi
    /\ hdone = {}
    /\ pcall2 = NoCall
    /\ stopper = "idle"
    /\ capture = "idle"
    /\ inflight = NoneInFlight

----------------------------------------------------------------------------
(* Specifications *)

\* the listener alone: the controller's state stays as constructed, with
\* the configuration default overlay_enabled = True (config.py:35)
Init ==
    /\ HotkeyInit
    /\ AppInit
    /\ overlay_enabled = TRUE

Next ==
    \/ \E raw \in RawNames : KeyDown(raw) /\ UNCHANGED <<appVars, pasteVars, auxVars>>
    \/ \E raw \in RawNames : KeyUp(raw) /\ UNCHANGED <<appVars, pasteVars, auxVars>>
    \/ \E raw \in RawNames : OtherEvent(raw) /\ UNCHANGED <<appVars, pasteVars, auxVars>>
    \/ \E p \in HotkeyChoices, s \in HotkeyChoices :
         UpdateHotkey(p, s) /\ UNCHANGED <<appVars, pasteVars, auxVars>>
    \/ Tick /\ UNCHANGED <<appVars, pasteVars, auxVars>>

Spec == Init /\ [][Next]_vars

AppSpecInit == HotkeyInit /\ AppInit

AppNext ==
    \/ \E raw \in AppRawNames : AppKeyDown(raw)
    \/ \E raw \in AppRawNames : AppKeyUp(raw)
    \/ AppTick
    \/ AudioCallback
    \/ \E w \in Workers : WorkerTake(w)
    \/ \E w \in Workers, resp \in RawResponses : TranscribeReturns(w, FALSE, resp)
    \/ \E w \in Workers : TranscribeReturns(w, TRUE, <<>>)
    \/ \E w \in Workers, readOk \in BOOLEAN, writeOk \in BOOLEAN,
          fails \in 0..(paste_retries + 1) : PasteStep(w, readOk, writeOk, fails)
    \/ \E w \in Workers, writeOk \in BOOLEAN : HistoryStep(w, writeOk)
    \/ \E w \in Workers : ResetStep(w)
    \/ \E o \in StopOutcomes : Quit(o)

AppSpec == AppSpecInit /\ [][AppNext]_vars

\* the controller's two handlers called in any order, as by a listener that
\* gives no guarantee about the order of its signals
\* app.py:115-124 as on_start
SignalStart(outcome) ==
    /\ session < MaxSessions
    /\ HandlePushToTalkStart(outcome)
    /\ UNCHANGED <<hkVars, now, obsVars, inflight>>

\* app.py:126-136 as on_stop; the model follows the executor's queue up to
\* MaxSessions jobs and a session up to MaxSessions idle requests
SignalStop(outcome) ==
    /\ session >= 1
    /\ Len(queue) < MaxSessions
    /\ sess[session].idleReq < MaxSessions
    /\ HandlePushToTalkStop(outcome)
    /\ UNCHANGED <<hkVars, now, obsVars, inflight>>

SignalNext ==
    \/ \E o \in StartOutcomes : SignalStart(o)
    \/ \E o \in StopOutcomes : SignalStop(o)
    \/ AudioCallback

SignalSpec == AppSpecInit /\ [][SignalNext]_vars

\* the AudioRecorder alone, its methods called in any order; ev records the
\* method the last call was of and cb whether it returned or raised
RecorderEvent(op) == [type |-> op, key |-> "", prim |-> "", sec |-> ""]

\* audio.py:87-118: start(); session counts the start() calls, and the
\* model follows MaxSessions of them
RecorderStart(outcome) ==
    LET res == AudioStart(stream, buffer, outcome) IN
    /\ session < MaxSessions
    /\ stream' = res.stream
    /\ buffer' = res.buffer
    /\ session' = session + 1
    /\ ev' = RecorderEvent("audio.start")
    /\ cb' = IF res.raised THEN "raise" ELSE "ok"
    /\ UNCHANGED <<hkVars, now, emit, escaped, raised, wasActive, startsInCycle,
                   lastEmit, hook, overlay_enabled, paste_retries, pasteVars, auxVars, queue, workers,
                   shutdown, history, sess>>

\* audio.py:120-130: stop()
RecorderStop(outcome) ==
    LET res == AudioStop(stream, outcome) IN
    /\ stream' = res.stream
    /\ ev' = RecorderEvent("audio.stop")
    /\ cb' = IF res.raised THEN "raise" ELSE "ok"
    /\ UNCHANGED <<hkVars, now, emit, escaped, raised, wasActive, startsInCycle,
                   lastEmit, hook, overlay_enabled, paste_retries, pasteVars, auxVars, buffer, session, queue,
                   workers, shutdown, history, sess>>

\* a reset() that also drops the stream
RecorderResetDropsStream ==
    /\ buffer' = <<>>
    /\ stream' = "closed"
    /\ ev' = RecorderEvent("audio.reset")
    /\ cb' = "ok"
    /\ UNCHANGED <<hkVars, now, emit, escaped, raised, wasActive, startsInCycle,
                   lastEmit, hook, overlay_enabled, paste_retries, pasteVars, auxVars, session, queue,
                   workers, shutdown, history, sess>>

\* audio.py:132-136: reset()
RecorderReset ==
    /\ buffer' = <<>>
    /\ ev' = RecorderEvent("audio.reset")
    /\ cb' = "ok"
    /\ UNCHANGED <<hkVars, now, emit, escaped, raised, wasActive, startsInCycle,
                   lastEmit, hook, overlay_enabled, paste_retries, pasteVars, auxVars, stream, session, queue,
                   workers, shutdown, history, sess>>

\* audio.py:154-173: get_wav_bytes(); it changes no field of the recorder;
\* ev records what it returned
RecorderGetWavBytes ==
    /\ ev' = [type |-> "audio.get_wav_bytes", key |-> "", prim |-> "",
              sec |-> "", result |-> GetWavBytes(buffer)]
    /\ cb' = "ok"
    /\ UNCHANGED <<hkVars, now, emit, escaped, raised, wasActive, startsInCycle,
                   lastEmit, appVars, pasteVars, auxVars>>

\* audio.py:138-146 with the recorder alone
RecorderCallback == CaptureBlock(MaxCaptured)

AudioNext ==
    \/ \E o \in StartOutcomes : RecorderStart(o)
    \/ \E o \in StopOutcomes : RecorderStop(o)
    \/ RecorderReset
    \/ RecorderGetWavBytes
    \/ RecorderCallback

AudioSpec == AppSpecInit /\ [][AudioNext]_vars

\* paste_text alone, with the clipboard and the timers it starts
PasteNext ==
    \/ \E text \in PasteTexts, nl \in BOOLEAN, r \in 0..MaxRetries :
         PasteCall(text, nl, r)
    \/ \E readOk \in BOOLEAN : PasteRead(readOk)
    \/ \E writeOk \in BOOLEAN : PasteCopy(writeOk)
    \/ \E sendOk \in BOOLEAN : PasteSend(sendOk)
    \/ \E writeOk \in BOOLEAN : TimerFires(writeOk)

PasteSpec == AppSpecInit /\ [][PasteNext]_vars

\* TranscriptionHistory alone: add_entry on the two worker threads,
\* entries() and total_word_count() on the UI thread
HistoryNext ==
    \/ \E w \in Workers, text \in HistoryTexts : AddEntry(w, text)
    \/ \E w \in Workers : AddAcquire(w)
    \/ \E w \in Workers, writeOk \in BOOLEAN : AddWrite(w, writeOk)
    \/ \E w \in Workers : AddTotal(w)
    \/ EntriesRead
    \/ EntriesStore
    \/ TotalWordCount
    \/ NewHistory

HistorySpec == AppSpecInit /\ [][HistoryNext]_vars

\* paste_text called by both workers of the executor (app.py:54, :155-159)
\* with the configured retries, the second call beginning at any point after
\* the first; the restoring copy of the timers succeeds
OverlapNext ==
    \/ \E text \in OverlapTexts, nl \in BOOLEAN :
         PasteCall(text, nl, paste_retries)
    \/ \E readOk \in BOOLEAN : PasteRead(readOk)
    \/ \E writeOk \in BOOLEAN : PasteCopy(writeOk)
    \/ \E sendOk \in BOOLEAN : PasteSend(sendOk)
    \/ \E text \in OverlapTexts, nl \in BOOLEAN :
         Paste2Call(text, nl, paste_retries)
    \/ \E readOk \in BOOLEAN : Paste2Read(readOk)
    \/ \E writeOk \in BOOLEAN : Paste2Copy(writeOk)
    \/ \E sendOk \in BOOLEAN : Paste2Send(sendOk)
    \/ TimerFires(TRUE)

OverlapSpec == AppSpecInit /\ [][OverlapNext]_vars

\* the AudioRecorder with the thread that calls start() and stop() and the
\* audio thread that runs _callback
AudioLockNext ==
    \/ \E o \in StartOutcomes : LockedStart(o)
    \/ StopEnter
    \/ \E o \in StopOutcomes : StopLeave(o)
    \/ CallbackEnter
    \/ CallbackAppend
    \/ CallbackLeave

AudioLockSpec == AppSpecInit /\ [][AudioLockNext]_vars

\* the controller with the keyboard thread's down handler in two steps and
\* quit() called from the main thread at any point
QuitNext ==
    \/ \E raw \in AppRawNames : DownDecides(raw)
    \/ \E o \in StartOutcomes : DownCallsStart(o)
    \/ \E raw \in AppRawNames : UpHandled(raw)
    \/ AppTick
    \/ AudioCallback
    \/ \E o \in StopOutcomes : Quit(o)

QuitSpec == AppSpecInit /\ [][QuitNext]_vars

----------------------------------------------------------------------------
(* Claims about HotkeyListener, checked under Spec *)

\* C1: on_start is invoked only by a step that begins with _active false,
\* and on_stop only by a step that begins with _active true.
C1_StartFromIdleStopFromActive ==
    [][ /\ (emit' = "start" => ~active)
        /\ (emit' = "stop" => active) ]_vars

\* C1 witness: an on_stop call made from the Active state.
C1_Witness == emit = "stop" /\ wasActive /\ ~active

\* C2 as stated: every press cycle that a release of a required key ends has
\* seen exactly one on_start call.
C2_ExactlyOneStartPerCycle ==
    [][ (ev'.type = "up" /\ required \subseteq pressed
           /\ ~(required' \subseteq pressed'))
        => startsInCycle = 1 ]_vars

\* C2 amended: a press cycle sees at most one on_start call, however many
\* down events repeat in it; it sees one at its first down event when that
\* event comes at least the debounce interval after the last accepted
\* transition, and none at that event otherwise.
C2_AtMostOneStartPerCycle ==
    [][ /\ startsInCycle' <= 1
        /\ (~(required \subseteq pressed) /\ required' \subseteq pressed')
             => (emit' = "start" <=> now - last_event_ts >= Debounce) ]_vars

\* C2 witness: a repeated down event for a pressed required key, long after
\* the start of the cycle, that invoked nothing.
C2_Witness ==
    /\ ev.type = "down" /\ ev.key \in required
    /\ wasActive /\ active
    /\ startsInCycle = 1 /\ emit = "none"
    /\ now - last_event_ts >= Debounce

\* C3 as stated: at a down or up event for a required key, on_start is
\* invoked iff the whole combination is pressed and the last accepted
\* transition is the debounce interval or more ago (an elapsed time equal
\* to the interval is read in the claim's favour).
C3_StartIffPressedAndDebounced ==
    [][ (ev'.type \in {"down", "up"} /\ ev'.key \in required)
        => (emit' = "start"
              <=> (required \subseteq pressed' /\ now - last_event_ts >= Debounce)) ]_vars

\* C3 amended: on_start is invoked exactly by a down event for a required
\* key that leaves the whole combination pressed, while the listener is Idle
\* and the last accepted transition is at least the debounce interval ago; a
\* release followed by a re-press inside the debounce window invokes nothing.
C3_StartIffIdlePressedAndDebounced ==
    [][ emit' = "start"
        <=> /\ ev'.type = "down"
            /\ ev'.key \in required
            /\ required \subseteq pressed'
            /\ ~active
            /\ now - last_event_ts >= Debounce ]_vars

\* C3 witness: a re-press inside the debounce window of an earlier
\* transition: the combination is pressed, the listener stays Idle.
C3_Witness ==
    /\ ev.type = "down" /\ ev.key \in required
    /\ required \subseteq pressed
    /\ ~active /\ emit = "none"
    /\ last_event_ts >= ClockStart
    /\ now - last_event_ts < Debounce

\* C4 as stated: every accepted transition, start or stop, comes the
\* debounce interval or more after the last accepted transition (an elapsed
\* time equal to the interval is read in the claim's favour).
C4_EveryTransitionDebounced ==
    [][ emit' # "none" => now - last_event_ts >= Debounce ]_vars

\* C4 amended: on_start is accepted only when at least the debounce interval
\* has passed since the last accepted transition; on_stop is not debounced:
\* an up event that breaks the combination while Active is always accepted.
C4_OnlyStartDebounced ==
    [][ /\ (emit' = "start" => now - last_event_ts >= Debounce)
        /\ (ev'.type = "up" /\ ev'.key # "" /\ active
              /\ ~(required \subseteq pressed'))
             => emit' = "stop" ]_vars

\* C4 witness: an on_stop accepted inside the debounce window of the
\* on_start before it.
C4_Witness ==
    /\ emit = "stop"
    /\ last_event_ts = now
    /\ now - ClockStart < Debounce

\* C5: update_hotkey replaces the required set by the two normalised names,
\* empties the pressed set, sets _active false, invokes no callback and
\* leaves _last_event_ts as it was.
C5_UpdateHotkeyFrame ==
    [][ ev'.type = "update"
        => /\ required' = {ev'.prim, ev'.sec}
           /\ pressed' = {}
           /\ active' = FALSE
           /\ emit' = "none"
           /\ last_event_ts' = last_event_ts ]_vars

\* C5 witness: update_hotkey called while Active with the keys held.
C5_Witness ==
    /\ ev.type = "update"
    /\ wasActive /\ ~active
    /\ pressed = {} /\ emit = "none"
    /\ last_event_ts >= ClockStart

\* C6: an exception a callback raises never leaves _handle_event; the
\* transition recorded for the failed callback is kept, and key events after
\* it are accepted by the same rules.
C6_CallbackFailureContained ==
    /\ [](~escaped)
    /\ [][ /\ (emit' # "none" /\ cb' = "raise")
             => (active' = (emit' = "start") /\ last_event_ts' = now)
           /\ (raised /\ ev'.type = "up" /\ ev'.key # "" /\ active
                 /\ ~(required \subseteq pressed'))
                => emit' = "stop"
           /\ (raised /\ ev'.type = "down" /\ ev'.key \in required /\ ~active
                 /\ required \subseteq pressed'
                 /\ now - last_event_ts >= Debounce)
                => emit' = "start" ]_vars

\* C6 witness: on_start raised, and the release after it still invoked
\* on_stop from the Active state.
C6_Witness ==
    /\ raised /\ ~escaped
    /\ emit = "stop" /\ cb = "ok" /\ wasActive

----------------------------------------------------------------------------
(* Claims about WhisperFreeController, checked under AppSpec *)

\* the session is being recorded: it is the latest one and its stream is
\* not closed
Recording(s) == session = s /\ stream # "closed"

\* the session's job waits in the executor's queue or runs on a worker
Transcribing(s) ==
    \/ \E i \in DOMAIN queue : queue[i].sid = s
    \/ \E w \in Workers : workers[w].pc # "free" /\ workers[w].sid = s

\* the history entries recorded for the session
EntriesOf(s) == { i \in DOMAIN history : history[i].sid = s }

\* the text is empty or consists of whitespace only
IsBlank(text) == \A i \in DOMAIN text : text[i] \in Whitespace

\* C7: the stop handler reads the payload only with the stream stopped and
\* closed; a session that started capturing and whose payload is empty gets
\* the "No speech detected" notice (and, with the overlay enabled, the idle
\* request), is neither recorded nor transcribed any more, and transcribe()
\* is never called for it.
C7_EmptyPayloadNeverTranscribed ==
    \A s \in Sessions :
        /\ sess[s].read # "none" => sess[s].streamAtRead = "closed"
        /\ (sess[s].startOk /\ sess[s].read = "empty")
             => /\ "No speech detected" \in sess[s].toasts
                /\ sess[s].idleReq = (IF overlay_enabled THEN 1 ELSE 0)
                /\ ~Recording(s)
                /\ ~Transcribing(s)
                /\ ~sess[s].submitted
                /\ sess[s].transcribeCalls = 0

\* C7 witness: a session that opened the stream, captured no block and was
\* stopped.
C7_Witness ==
    \E s \in Sessions :
        /\ sess[s].startOk /\ sess[s].read = "empty"
        /\ sess[s].streamAtRead = "closed"
        /\ "No speech detected" \in sess[s].toasts

\* C8: a session whose transcribe() call raised gets the "Transcription
\* failed" notice and the idle request and is over; paste_text and
\* add_entry are never called for it and the history holds no entry of it.
C8_TranscriptionFailureEndsSession ==
    \A s \in Sessions :
        sess[s].transcribed = "fail"
        => /\ "Transcription failed" \in sess[s].toasts
           /\ sess[s].idleReq = 1
           /\ sess[s].done /\ ~Transcribing(s)
           /\ sess[s].pasteCalls = 0
           /\ sess[s].histCalls = 0
           /\ EntriesOf(s) = {}

\* C8 witness: a session whose transcription failed.
C8_Witness ==
    \E s \in Sessions :
        /\ sess[s].transcribed = "fail" /\ sess[s].transcribeCalls = 1
        /\ "Transcription failed" \in sess[s].toasts

\* C9: a session whose transcription returned an empty or whitespace-only
\* text gets the "Nothing to paste" notice and the idle request and is over;
\* paste_text and add_entry are never called for it and the history holds no
\* entry of it.
C9_BlankTextNothingToPaste ==
    \A s \in Sessions :
        (sess[s].transcribed = "ok" /\ IsBlank(sess[s].resp))
        => /\ "Nothing to paste" \in sess[s].toasts
           /\ sess[s].idleReq = 1
           /\ sess[s].done /\ ~Transcribing(s)
           /\ sess[s].pasteCalls = 0
           /\ sess[s].histCalls = 0
           /\ EntriesOf(s) = {}

\* C9 witness: the API answered with whitespace only.
C9_Witness ==
    \E s \in Sessions :
        /\ sess[s].transcribed = "ok"
        /\ sess[s].resp # <<>> /\ IsBlank(sess[s].resp)
        /\ "Nothing to paste" \in sess[s].toasts

\* C10 as stated: once _process_session has ended for a session whose
\* transcription returned a text that is not blank, the history holds
\* exactly one entry of the session, carrying that text.
C10_ExactlyOneHistoryEntry ==
    \A s \in Sessions :
        (sess[s].transcribed = "ok" /\ ~IsBlank(sess[s].resp) /\ sess[s].done)
        => /\ Cardinality(EntriesOf(s)) = 1
           /\ \A i \in EntriesOf(s) : history[i].text = ApiText(sess[s].resp)

\* C10 amended: for such a session add_entry is called exactly once, after
\* the one paste_text call and whatever that call returned; the history
\* holds exactly one entry of the session, carrying the text, unless the
\* append raised, and then it holds none.
C10_HistoryAppendAttemptedOnce ==
    \A s \in Sessions :
        /\ Cardinality(EntriesOf(s)) <= 1
        /\ (sess[s].transcribed = "ok" /\ ~IsBlank(sess[s].resp) /\ sess[s].done)
             => /\ sess[s].pasteCalls = 1 /\ sess[s].paste # "none"
                /\ sess[s].histCalls = 1
                /\ Cardinality(EntriesOf(s)) = (IF sess[s].histRaised THEN 0 ELSE 1)
                /\ \A i \in EntriesOf(s) :
                      /\ history[i].text = ApiText(sess[s].resp)
                      /\ history[i].text # <<>>

\* C10 witness: every keystroke of the paste failed, paste_text returned
\* False, and the session's text is in the history.
C10_Witness ==
    \E s \in Sessions :
        /\ sess[s].done /\ sess[s].paste = "keys_failed"
        /\ ~sess[s].histRaised
        /\ \E i \in EntriesOf(s) : history[i].text = ApiText(sess[s].resp)

\* C11: within a session each step happens at most once and only after the
\* steps before it: the payload is read with the stream closed before the
\* job is submitted, transcribe() is called only for a submitted job,
\* paste_text only after transcribe() returned, add_entry only after
\* paste_text returned, and the worker's idle request comes last, after
\* which nothing more happens for the session.
C11_StepsInOrder ==
    \A s \in Sessions :
        LET r == sess[s] IN
        /\ r.transcribeCalls <= 1 /\ r.pasteCalls <= 1 /\ r.histCalls <= 1
        /\ r.submitted => (r.read = "data" /\ r.streamAtRead = "closed")
        /\ r.transcribeCalls > 0 => r.submitted
        /\ r.transcribed # "none" => r.transcribeCalls = 1
        /\ r.pasteCalls > 0 => r.transcribed = "ok"
        /\ r.paste # "none" <=> r.pasteCalls = 1
        /\ r.histCalls > 0 => r.paste # "none"
        /\ EntriesOf(s) # {} => r.histCalls = 1
        /\ (r.submitted /\ r.idleReq > 0)
             => /\ r.idleReq = 1 /\ r.done /\ ~Transcribing(s)
                /\ \/ r.transcribed = "fail"
                   \/ r.transcribed = "ok" /\ IsBlank(r.resp)
                   \/ r.histCalls = 1 /\ ~r.histRaised
        /\ r.done => ~Transcribing(s)

\* C11 witness: a session that went through every step.
C11_Witness ==
    \E s \in Sessions :
        /\ sess[s].submitted /\ sess[s].transcribed = "ok"
        /\ sess[s].pasteCalls = 1 /\ sess[s].histCalls = 1
        /\ EntriesOf(s) # {}
        /\ sess[s].idleReq = 1 /\ sess[s].done

\* C12: in every state at most one session is being recorded or has a job
\* waiting in the executor's queue or running on a worker.
C12_AtMostOneSessionInFlight ==
    Cardinality({ s \in Sessions : Recording(s) \/ Transcribing(s) }) <= 1

\* the handling of the session is over: the stop handler found no audio, or
\* _process_session has ended, by return or by exception
Ended(s) == sess[s].read = "empty" \/ sess[s].done

\* C14: with the overlay enabled, every session that opened the stream and
\* whose handling is over, by whatever path, has had the overlay reset by an
\* idle request.
C14_EveryFailurePathResetsIdle ==
    \A s \in Sessions :
        (overlay_enabled /\ sess[s].startOk /\ Ended(s)) => sess[s].idleReq >= 1

\* C15: a session whose audio.start() raised has the "Audio input error"
\* notice and no recording request, the exception did not leave the start
\* handler, the stream is closed while the session is the current one, and
\* no job is ever submitted for it.
C15_StartFailureStaysIdle ==
    \A s \in Sessions :
        sess[s].startFailed
        => /\ "Audio input error" \in sess[s].toasts
           /\ ~sess[s].recReq
           /\ ~sess[s].startEscaped
           /\ ~sess[s].startOk
           /\ ~Recording(s)
           /\ ~sess[s].submitted /\ ~Transcribing(s)

\* C15 witness: audio.start() raised with the overlay enabled.
C15_Witness ==
    \E s \in Sessions :
        /\ overlay_enabled
        /\ sess[s].startFailed
        /\ "Audio input error" \in sess[s].toasts

\* C16: once quit() has shut the executor down, no step calls paste_text,
\* appends to the history or emits a toast or idle request.
C16_NoCompletionAfterShutdown ==
    [][ shutdown
        => /\ history' = history
           /\ \A s \in Sessions :
                 /\ sess'[s].pasteCalls = sess[s].pasteCalls
                 /\ sess'[s].histCalls = sess[s].histCalls
                 /\ sess'[s].toasts = sess[s].toasts
                 /\ sess'[s].idleReq = sess[s].idleReq ]_vars

\* C17: the quit() call that unhooks the listener leaves the listener reset,
\* the stream closed, the executor shut down and its queue empty; it changes
\* no worker, so it waits for none.
C17_QuitStopsEverything ==
    [][ (hook /\ ~hook')
        => /\ pressed' = {} /\ ~active'
           /\ stream' = "closed"
           /\ shutdown'
           /\ queue' = <<>>
           /\ workers' = workers ]_vars

----------------------------------------------------------------------------
(* Claims about the controller's handlers, checked under SignalSpec *)

\* C13: an on_stop call that finds the recorder's stream closed submits no
\* job; an on_start call that finds the stream open leaves the stream, the
\* buffered blocks and the executor's queue as they are.
C13_OutOfOrderSignalsIgnored ==
    [][ /\ ((\E o \in StopOutcomes : SignalStop(o)) /\ stream = "closed")
           => queue' = queue
        /\ ((\E o \in StartOutcomes : SignalStart(o)) /\ stream = "open")
           => (stream' = stream /\ buffer' = buffer /\ queue' = queue) ]_vars

----------------------------------------------------------------------------
(* Claims about AudioRecorder, checked under AudioSpec *)

\* C18: a start() call that finds a stream open raises.
C18_StartOnOpenStreamRaises ==
    [][ ((\E o \in StartOutcomes : RecorderStart(o)) /\ stream = "open")
        => cb' = "raise" ]_vars

\* C19: a stop() call on a recorder that was never started, or that follows
\* another stop() call, returns without raising, finds and leaves the stream
\* closed, and leaves the buffered blocks as they are.
C19_StopIdempotent ==
    [][ ((\E o \in StopOutcomes : RecorderStop(o))
          /\ (session = 0 \/ ev.type = "audio.stop"))
        => /\ cb' = "ok"
           /\ stream = "closed" /\ stream' = "closed"
           /\ buffer' = buffer ]_vars

\* C20: after every stop() call, whether it returned or raised, the stream
\* is closed and the recorder holds no stream.
C20_StopAlwaysReleases ==
    [][ (\E o \in StopOutcomes : RecorderStop(o)) => stream' = "closed" ]_vars

\* C21: a start() call that raises leaves the recorder as it found it: no
\* stream held, and the buffered blocks those held before the call.
C21_FailedStartLeavesStateUnchanged ==
    [][ ((\E o \in StartOutcomes : RecorderStart(o)) /\ cb' = "raise")
        => /\ stream' = "closed"
           /\ stream' = stream
           /\ buffer' = buffer ]_vars

\* C22: a reset() call empties the buffer and leaves the stream field as it
\* was, whether a stream is open or not.
C22_ResetFrame ==
    [][ RecorderReset => (buffer' = <<>> /\ stream' = stream /\ cb' = "ok") ]_vars

\* C22 witness: reset() was called with a stream open, which is still open.
C22_Witness ==
    /\ ev.type = "audio.reset"
    /\ stream = "open"
    /\ buffer = <<>>

\* C23: a get_wav_bytes() call leaves buffer and stream as they are; with no
\* block buffered it returns the empty byte string; with N blocks buffered
\* it returns the header followed by N * BlockSize samples, which are the
\* samples of the blocks in the order the callback appended them.
C23_GetWavBytesConcatenates ==
    [][ RecorderGetWavBytes
        => /\ buffer' = buffer /\ stream' = stream
           /\ buffer = <<>> => ev'.result = EmptyBytes
           /\ buffer # <<>> =>
                LET samples == Tail(ev'.result) IN
                /\ Len(samples) = Len(buffer) * BlockSize
                /\ \A i \in 1..Len(buffer), k \in 1..BlockSize :
                      samples[(i - 1) * BlockSize + k] = buffer[i][k] ]_vars

\* C23 witness: get_wav_bytes() returned the samples of two captured blocks.
C23_Witness ==
    /\ ev.type = "audio.get_wav_bytes"
    /\ Len(buffer) = 2
    /\ buffer[1] # buffer[2]
    /\ Len(ev.result) = 1 + 2 * BlockSize

----------------------------------------------------------------------------
(* Claims about paste_text, checked under PasteSpec *)

\* C24: whenever paste_text returned after it had captured a clipboard
\* snapshot and written the text to the clipboard, it has started the timer
\* that restores the snapshot.
C24_RestorationScheduledOnEveryReturn ==
    (pcall.pc = "returned" /\ pcall.wrote /\ pcall.original # None)
        => pcall.scheduled

\* C25 as stated: paste_text returns False only after all retries + 1
\* keystroke attempts have failed.
C25_FalseOnlyAfterAllAttempts ==
    (pcall.pc = "returned" /\ pcall.result = "False")
        => (~pcall.sent /\ pcall.sends = pcall.retries + 1)

\* C25: paste_text sends the keystroke at most retries + 1 times; once a
\* keystroke has succeeded no further one is sent and the call has returned
\* True, and a call that returned True ended with a successful keystroke;
\* a call that returned False either wrote the text and failed all
\* retries + 1 keystrokes, or failed to write the text and sent none.
C25_KeystrokeAttempts ==
    /\ pcall.sends <= pcall.retries + 1
    /\ pcall.sent => (pcall.pc = "returned" /\ pcall.result = "True")
    /\ (pcall.pc = "returned" /\ pcall.result = "True")
          => (pcall.sent /\ pcall.sends = pcall.attempt + 1)
    /\ (pcall.pc = "returned" /\ pcall.result = "False")
          => \/ pcall.wrote /\ ~pcall.sent /\ pcall.sends = pcall.retries + 1
             \/ ~pcall.wrote /\ pcall.sends = 0

\* C25 witness: the first keystroke failed, the second succeeded and the
\* call returned True.
C25_Witness ==
    /\ pcall.pc = "returned"
    /\ pcall.result = "True"
    /\ pcall.retries = 1
    /\ pcall.sends = 2

\* C26: when pyperclip.copy(payload) raises, the call returns False in the
\* same step: the write was attempted once, no keystroke was sent, no timer
\* was started and the clipboard is as it was.
C26_CopyFailureAborts ==
    [][ (PasteCopy(FALSE))
        => /\ pcall'.pc = "returned"
           /\ pcall'.result = "False"
           /\ pcall'.copies = 1
           /\ pcall'.sends = 0
           /\ ~pcall'.scheduled
           /\ timers' = timers
           /\ clipboard' = clipboard ]_vars

\* C26 witness: a call that had captured a snapshot returned False after
\* its one write attempt failed, with nothing sent and no timer started.
C26_Witness ==
    /\ pcall.pc = "returned"
    /\ pcall.result = "False"
    /\ ~pcall.wrote
    /\ pcall.copies = 1
    /\ pcall.sends = 0
    /\ pcall.original # None
    /\ timers = <<>>

\* C27: a call whose clipboard read failed goes on: it has no snapshot and
\* starts no timer; once returned it has attempted the write once, has sent
\* the keystroke if the write succeeded, and its result is the one of a
\* call whose read succeeded: True exactly after a successful keystroke,
\* False exactly after a failed write or retries + 1 failed keystrokes.
C27_ReadFailureIsNotFatal ==
    pcall.readFailed =>
        /\ pcall.pc \in {"copy", "send", "returned"}
        /\ pcall.original = None
        /\ ~pcall.scheduled
        /\ pcall.pc = "returned" =>
              /\ pcall.copies = 1
              /\ pcall.wrote => pcall.sends >= 1
              /\ pcall.result = "True" <=> pcall.sent
              /\ pcall.result = "False" <=>
                    \/ ~pcall.wrote
                    \/ ~pcall.sent /\ pcall.sends = pcall.retries + 1

\* C27 witness: the read failed, the text was written and pasted, the call
\* returned True and no timer is pending.
C27_Witness ==
    /\ pcall.readFailed
    /\ pcall.pc = "returned"
    /\ pcall.result = "True"
    /\ pcall.sent
    /\ clipboard = pcall.payload
    /\ timers = <<>>

\* C28: no paste_text call ends with an exception, whichever of the
\* clipboard read, the clipboard write and the keystrokes fail; a call that
\* has ended returned True or False, and a call still running has returned
\* nothing.
C28_ReturnsBooleanNeverRaises ==
    /\ pcall.pc # "raised"
    /\ pcall.pc = "returned" <=> pcall.result \in {"True", "False"}
    /\ pcall.pc # "returned" => pcall.result = "none"

\* C28 witness: the read failed and both keystrokes failed, and the call
\* returned False.
C28_Witness ==
    /\ pcall.pc = "returned"
    /\ pcall.readFailed
    /\ pcall.wrote
    /\ pcall.retries = 1
    /\ pcall.sends = 2
    /\ ~pcall.sent
    /\ pcall.result = "False"

\* C29: the text a call writes to the clipboard is a prefix of its text
\* argument that does not end in \r or \n, where everything the argument
\* has after that prefix is \r or \n, followed by one "\n" when
\* append_newline is set and by nothing otherwise; and what is written
\* without append_newline is itself left as it is by the normalisation.
C29_PayloadIsNormalised ==
    [][ PasteCopy(TRUE)
        => LET t == pcall.text
               tail == IF pcall.append_newline THEN <<"\n">> ELSE <<>>
           IN  /\ \E k \in 0..Len(t) :
                     /\ clipboard' = SubSeq(t, 1, k) \o tail
                     /\ k > 0 => t[k] \notin {"\r", "\n"}
                     /\ \A i \in (k + 1)..Len(t) : t[i] \in {"\r", "\n"}
               /\ ~pcall.append_newline
                     => Payload(clipboard', FALSE) = clipboard' ]_vars

\* C29 witness: the text "a\r" was written with append_newline as "a\n".
C29_Witness ==
    /\ pcall.wrote
    /\ pcall.text = <<"a", "\r">>
    /\ pcall.append_newline
    /\ clipboard = <<"a", "\n">>

----------------------------------------------------------------------------
(* Claims about the threads, checked under AppSpec *)

\* the step delivers a key event to the listener
KeyEventStep ==
    \/ \E raw \in AppRawNames : AppKeyDown(raw)
    \/ \E raw \in AppRawNames : AppKeyUp(raw)

\* C30: a step that handles a key event makes no transcribe(), paste_text or
\* add_entry call, writes no history entry and moves no worker: all the stop
\* handler does with a payload is to append it to the executor's queue. And
\* while a worker is inside transcribe(), a key-down event is still handled
\* (as long as the listener is hooked and the model follows further
\* sessions).
C30_SessionRunsOffTheEventThread ==
    /\ [][ KeyEventStep
           => /\ workers' = workers
              /\ history' = history
              /\ Len(queue') \in {Len(queue), Len(queue) + 1}
              /\ \A s \in Sessions :
                    /\ sess'[s].transcribeCalls = sess[s].transcribeCalls
                    /\ sess'[s].pasteCalls = sess[s].pasteCalls
                    /\ sess'[s].histCalls = sess[s].histCalls
                    /\ sess'[s].done = sess[s].done
                    /\ (sess'[s].submitted /\ ~sess[s].submitted)
                          => (s = session /\ queue' # queue
                              /\ queue'[Len(queue')].sid = s) ]_vars
    /\ []( ((\E w \in Workers : workers[w].pc = "transcribe")
            /\ hook /\ session < MaxSessions)
           => ENABLED (\E raw \in AppRawNames : AppKeyDown(raw)) )

\* C30 witness: the second session's start has been accepted and its stream
\* opened while a worker is still inside transcribe() for the first.
C30_Witness ==
    /\ \E w \in Workers : workers[w].pc = "transcribe" /\ workers[w].sid = 1
    /\ session = 2
    /\ sess[2].startOk
    /\ stream = "open"
    /\ sess[1].transcribed = "none"

----------------------------------------------------------------------------
(* Claims about TranscriptionHistory, checked under HistorySpec *)

\* the add_entry calls that have returned
Returned == { d \in hdone : d.returned }

\* the worker threads between acquiring and releasing the lock
InLock == { w \in Workers : hadd[w].pc \in {"write", "total"} }

\* C31: at most one worker thread is inside add_entry's locked block, and
\* it is the one holding the lock; every record of the log is the whole
\* record of one call, no call has two records, the calls that returned all
\* have theirs, and the log has as many records as calls have returned,
\* plus the one a thread has written and is about to return from.
C31_AddEntrySerialised ==
    /\ Cardinality(InLock) <= 1
    /\ hlock = InLock
    /\ \A i \in DOMAIN history :
          /\ history[i].words = WordCount(history[i].text)
          /\ \A j \in DOMAIN history : history[j].sid = history[i].sid => j = i
    /\ \A d \in Returned : \E i \in DOMAIN history : history[i].sid = d.id
    /\ Len(history) = Cardinality(Returned)
                      + Cardinality({ w \in Workers : hadd[w].pc = "total" })

\* C31 witness: one add_entry call has returned with its record in the log;
\* a second one holds the lock and has written its record while the first
\* thread, in a third call, waits for the lock.
C31_Witness ==
    /\ Cardinality(Returned) = 1
    /\ Len(history) = 2
    /\ \E w \in Workers, v \in Workers :
          hadd[w].pc = "total" /\ hadd[v].pc = "lock"


\* C38: every total_word_count() call returns the sum of the words fields
\* of the records the log holds.
C38_TotalIsSumOfLog ==
    [][ TotalWordCount => hui'.result = SumWords(history) ]_vars


----------------------------------------------------------------------------
(* Further claims about HotkeyListener, checked under Spec *)

\* C32: the on_start and on_stop calls alternate, beginning with on_start:
\* an on_start call is never the next call after another on_start call, and
\* an on_stop call always follows an on_start call.
C32_StartStopAlternate ==
    [][ /\ ((\E raw \in RawNames : KeyDown(raw)) /\ emit' = "start")
            => lastEmit # "start"
        /\ ((\E raw \in RawNames : KeyUp(raw)) /\ emit' = "stop")
            => lastEmit = "start" ]_vars


\* C40: the pressed set holds required keys only, and in the Active state
\* it holds all of them; a down or up event for a key that is not required
\* leaves the listener's fields as they are and invokes no callback.
C40_PressedWithinRequired ==
    /\ [](pressed \subseteq required /\ (active => required \subseteq pressed))
    /\ [][ \A raw \in RawNames :
             ((KeyDown(raw) \/ KeyUp(raw)) /\ NormaliseKey(raw) \notin required)
                => (UNCHANGED hkVars /\ emit' = "none") ]_vars

\* C40 witness: in the Active state an up event for a key outside the
\* combination came and invoked nothing.
C40_Witness ==
    /\ ev.type = "up"
    /\ ev.key # ""
    /\ ev.key \notin required
    /\ wasActive /\ active
    /\ required \subseteq pressed
    /\ emit = "none"


----------------------------------------------------------------------------
(* Further claims about the controller, checked under AppSpec *)

\* the blocks 1..n the callback appended during session s
BlocksOf(s, n) == [k \in 1..n |-> Block(s, k)]

\* C33: every payload submitted for a session is the encoding of the blocks
\* captured during that session, all of them from the first on and in the
\* order of arrival, and of no block of another session.
C33_PayloadIsOwnBlocks ==
    \A i \in DOMAIN queue :
        \E n \in 1..MaxBlocks :
            queue[i].payload = <<"RIFF">> \o Concatenate(BlocksOf(queue[i].sid, n))


\* C34: with the overlay enabled, while the stream is open for a session
\* whose recording indicator was requested, no step requests the idle
\* indicator, so that the last indicator requested stays the recording one.
C34_NoIdleWhileRecording ==
    [][ (overlay_enabled /\ stream = "open" /\ stream' = "open"
           /\ sess[session].recReq)
        => \A s \in Sessions : sess'[s].idleReq = sess[s].idleReq ]_vars


----------------------------------------------------------------------------
(* Claims about overlapping paste_text calls, checked under OverlapSpec *)

\* C35: when the second paste_text call began before the first one's timer
\* had fired, both calls have returned with their timers started and all
\* timers have fired, the clipboard holds what it held before the first
\* call.
C35_OverlappingPastesRestore ==
    (/\ pcall.pc = "returned" /\ pcall.scheduled
     /\ pcall2.pc = "returned" /\ pcall2.scheduled
     /\ pcall2.overlap
     /\ timers = <<>>)
        => clipboard = pcall.before


----------------------------------------------------------------------------
(* Claims about the recorder's lock, checked under AudioLockSpec *)

\* C36: the thread in stop() is never inside self._stream.stop(), holding
\* the lock, while the audio thread is in _callback waiting for that lock.
C36_StopNeverWaitsOnBlockedCallback ==
    ~(stopper = "stopping" /\ capture = "copied")


----------------------------------------------------------------------------
(* Claims about quit(), checked under QuitSpec *)

\* C37: once quit() has returned (the executor is shut down), the audio
\* stream is closed.
C37_StreamClosedAfterQuit ==
    shutdown => stream = "closed"


----------------------------------------------------------------------------
(* Claims about the order of the sessions' results, checked under AppSpec *)

\* C39: the sessions' texts are pasted and their history entries appended in
\* the order of recording: no session has been pasted while an earlier one
\* is still about to be, and the log lists the sessions in ascending order.
C39_ResultsInSessionOrder ==
    /\ \A w \in Workers : \A s \in 1..MaxSessions :
          (workers[w].pc = "paste" /\ workers[w].sid < s)
             => sess[s].pasteCalls = 0
    /\ \A i, j \in DOMAIN history :
          i < j => history[i].sid <= history[j].sid


====
